---- MODULE Spec2Model ----
(***************************************************************************)
(* A model of the RPC server of package rpc (server.go): the IP allow-list *)
(* (Bind, BindLocal, clientAllowed), the codec table (RegisterCodec), the  *)
(* service registry (RegisterService, HasMethod) and the request           *)
(* dispatcher (ServeHTTP, writeError), and of json.Error (json/error.go).  *)
(* heap and handlers are the instances that reflect.New allocates and the *)
(* requests being handled concurrently.                                   *)
(*                                                                         *)
(* Strings the code inspects are sequences of tokens, so that splitting,   *)
(* truncation and case folding are computed: a content type is a sequence  *)
(* of characters, a remote address a sequence of "[", "]", ":" and chunks  *)
(* without these, a dotted method name a sequence of "." and identifiers.  *)
(* An error is a sequence of message parts, <<>> being nil.  A net.IP is   *)
(* its byte sequence (4 or 16 bytes), <<>> being the nil IP.               *)
(***************************************************************************)
EXTENDS Integers, Sequences, FiniteSets, TLC

VARIABLES allow, codecs, services, lastBind, last, heap, handlers

vars == <<allow, codecs, services, lastBind, last, heap, handlers>>

----------------------------------------------------------------------------
(* Bounds of the model.                                                    *)

\* Longest argument list given to one Bind call.
MaxAllow == 2

\* Largest number of entries the codec table grows to.
MaxCodecs == 2

\* Number of requests handled concurrently.
MaxRequests == 2

----------------------------------------------------------------------------
(* Errors (server.go, var block).                                          *)

NoError == <<>>

ErrEmptyBindLocal == <<"rpc: local address list is empty">>

ErrMalformedRemoteIp == <<"rpc: remote client rejected, cannot read its IP">>

ErrRemoteNotAllowed == <<"rpc: remote client rejected, not allowed by the server">>

----------------------------------------------------------------------------
(* Sequence helpers.                                                       *)

Range(s) == {s[i] : i \in 1..Len(s)}

\* strings.Index / IndexByte: the first position of c in s, 0 when absent.
IndexOf(s, c) ==
    IF \E i \in 1..Len(s) : s[i] = c
    THEN CHOOSE i \in 1..Len(s) : s[i] = c /\ \A j \in 1..(i - 1) : s[j] # c
    ELSE 0

\* The last position of c in s, 0 when absent.
LastIndexOf(s, c) ==
    IF \E i \in 1..Len(s) : s[i] = c
    THEN CHOOSE i \in 1..Len(s) : s[i] = c /\ \A j \in (i + 1)..Len(s) : s[j] # c
    ELSE 0

----------------------------------------------------------------------------
(* IP addresses: net.IP values as byte sequences.                          *)

\* net.IPv4(a, b, c, d): the 16-byte (IPv4-mapped) form.
IPv4(a, b, c, d) == <<0, 0, 0, 0, 0, 0, 0, 0, 0, 0, 255, 255, a, b, c, d>>

\* The 4-byte form of the same address (net.IP{a, b, c, d}, ip.To4()).
IPv4Short(a, b, c, d) == <<a, b, c, d>>

IPv6Loopback == <<0, 0, 0, 0, 0, 0, 0, 0, 0, 0, 0, 0, 0, 0, 0, 1>>

NilIP == <<>>

\* A mutant of IPEqual: compares the bytes only, so the 4-byte and the
\* 16-byte form of one IPv4 address differ.
IPEqualBytewise(ip, x) == ip = x

\* net.IP.Equal, as clientAllowed uses it: equal bytes, or an IPv4 address
\* and its IPv4-mapped IPv6 form.
IPEqual(ip, x) ==
    IF Len(ip) = Len(x) THEN ip = x
    ELSE IF Len(ip) = 4 /\ Len(x) = 16
         THEN SubSeq(x, 1, 12) = SubSeq(IPv4(0, 0, 0, 0), 1, 12) /\ ip = SubSeq(x, 13, 16)
    ELSE IF Len(ip) = 16 /\ Len(x) = 4
         THEN SubSeq(ip, 1, 12) = SubSeq(IPv4(0, 0, 0, 0), 1, 12) /\ SubSeq(ip, 13, 16) = x
    ELSE FALSE

----------------------------------------------------------------------------
(* Remote addresses.                                                       *)

\* net.SplitHostPort on a tokenised address: [err, host].  The port is
\* dropped, as clientAllowed drops it.
SplitHostPort(hostport) ==
    LET i == LastIndexOf(hostport, ":")
        bad(msg) == [err |-> <<msg>>, host |-> <<>>]
    IN  IF i = 0 THEN bad("missing port in address")
        ELSE IF hostport[1] = "["
        THEN LET end == IndexOf(hostport, "]")
             IN  IF end = 0 THEN bad("missing ']' in address")
                 ELSE IF end = Len(hostport) THEN bad("missing port in address")
                 ELSE IF end + 1 # i
                      THEN IF hostport[end + 1] = ":"
                           THEN bad("too many colons in address")
                           ELSE bad("missing port in address")
                 ELSE IF IndexOf(SubSeq(hostport, 2, Len(hostport)), "[") # 0
                      THEN bad("unexpected '[' in address")
                 ELSE IF IndexOf(SubSeq(hostport, end + 1, Len(hostport)), "]") # 0
                      THEN bad("unexpected ']' in address")
                 ELSE [err |-> NoError, host |-> SubSeq(hostport, 2, end - 1)]
        ELSE LET host == SubSeq(hostport, 1, i - 1)
             IN  IF IndexOf(host, ":") # 0 THEN bad("too many colons in address")
                 ELSE IF IndexOf(hostport, "[") # 0 THEN bad("unexpected '[' in address")
                 ELSE IF IndexOf(hostport, "]") # 0 THEN bad("unexpected ']' in address")
                 ELSE [err |-> NoError, host |-> host]

\* net.ParseIP on the host literals of the model: the 16-byte form of the
\* address, NilIP for a host that is no IP literal.
ParseIP(host) ==
    CASE host = <<"127.0.0.1">>          -> IPv4(127, 0, 0, 1)
      [] host = <<"233.100.100.33">>     -> IPv4(233, 100, 100, 33)
      [] host = <<"32.32.33.33">>        -> IPv4(32, 32, 33, 33)
      [] host = <<":", ":", "1">>        -> IPv6Loopback
      [] OTHER                           -> NilIP

----------------------------------------------------------------------------
(* The allow-list: Bind, BindLocal, clientAllowed.                         *)

\* A mutant of clientAllowed: no fail-open branch, an empty list admits
\* nobody.
clientAllowedNoEmptyCheck(allowList, remoteAddr) ==
    LET sp == SplitHostPort(remoteAddr)
        ip == ParseIP(sp.host)
    IN  IF sp.err # NoError THEN ErrMalformedRemoteIp \o sp.err
        ELSE IF ip = NilIP THEN ErrMalformedRemoteIp
        ELSE IF \E i \in 1..Len(allowList) : IPEqual(allowList[i], ip) THEN NoError
        ELSE ErrRemoteNotAllowed

\* A mutant of clientAllowed: the address is parsed before the list is
\* looked at, so a malformed address is rejected whatever the list.
clientAllowedParseFirst(allowList, remoteAddr) ==
    LET sp == SplitHostPort(remoteAddr)
        ip == ParseIP(sp.host)
    IN  IF sp.err # NoError THEN ErrMalformedRemoteIp \o sp.err
        ELSE IF ip = NilIP THEN ErrMalformedRemoteIp
        ELSE IF Len(allowList) = 0 THEN NoError
        ELSE IF \E i \in 1..Len(allowList) : IPEqual(allowList[i], ip) THEN NoError
        ELSE ErrRemoteNotAllowed

\* Server.clientAllowed: the error, NoError when the peer is admitted.
clientAllowed(allowList, remoteAddr) ==
    IF Len(allowList) = 0 THEN NoError
    ELSE LET sp == SplitHostPort(remoteAddr)
             ip == ParseIP(sp.host)
         IN  IF sp.err # NoError THEN ErrMalformedRemoteIp \o sp.err
             ELSE IF ip = NilIP THEN ErrMalformedRemoteIp
             ELSE IF \E i \in 1..Len(allowList) : IPEqual(allowList[i], ip) THEN NoError
             ELSE ErrRemoteNotAllowed

\* A mutant of BindAllow: the new addresses are added to the old ones.
BindAllowAppend(old, ips) == old \o ips

\* Server.Bind: the allow-list after Bind(ips...).
BindAllow(old, ips) == ips

\* The IPs BindLocal collects from the enumerated addresses: those of the
\* *net.IPNet entries, in order.
RECURSIVE LocalIPs(_)
LocalIPs(addrs) ==
    IF addrs = <<>> THEN <<>>
    ELSE IF Head(addrs).kind = "IPNet"
         THEN <<Head(addrs).ip>> \o LocalIPs(Tail(addrs))
         ELSE LocalIPs(Tail(addrs))

\* A mutant of BindLocalOutcome: an empty local list is bound like any
\* other and no error is returned.
BindLocalOutcomeBindsEmpty(old, ia) ==
    IF ia.err # NoError THEN [err |-> ia.err, allow |-> old]
    ELSE [err |-> NoError, allow |-> BindAllow(old, LocalIPs(ia.addrs))]

\* Server.BindLocal, given what net.InterfaceAddrs returned (ia): the error
\* returned and the allow-list afterwards.
BindLocalOutcome(old, ia) ==
    IF ia.err # NoError THEN [err |-> ia.err, allow |-> old]
    ELSE LET local == LocalIPs(ia.addrs)
         IN  IF Len(local) = 0 THEN [err |-> ErrEmptyBindLocal, allow |-> old]
             ELSE [err |-> NoError, allow |-> BindAllow(old, local)]

----------------------------------------------------------------------------
(* Inputs of the allow-list operations.                                    *)

\* The addresses Bind is called with.
BindPool == <<IPv4Short(127, 0, 0, 1), IPv6Loopback, IPv4(233, 100, 100, 33)>>

RECURSIVE PickFrom(_, _)
\* The elements of BindPool at the positions in S, in pool order.
PickFrom(S, i) ==
    IF i > Len(BindPool) THEN <<>>
    ELSE (IF i \in S THEN <<BindPool[i]>> ELSE <<>>) \o PickFrom(S, i + 1)

\* Argument lists of Bind: at most MaxAllow pool addresses.
BindArgs ==
    {PickFrom(S, 1) : S \in {T \in SUBSET (1..Len(BindPool)) : Cardinality(T) <= MaxAllow}}

IPNet(ip) == [kind |-> "IPNet", ip |-> ip]

IPAddr(ip) == [kind |-> "IPAddr", ip |-> ip]

\* What net.InterfaceAddrs may return: an error, or a list of addresses,
\* each a *net.IPNet or another net.Addr (an *net.IPAddr).
InterfaceAddrs ==
    { [err |-> <<"route ip+net: invalid argument">>, addrs |-> <<>>],
      [err |-> NoError, addrs |-> <<>>],
      [err |-> NoError, addrs |-> <<IPAddr(IPv4(127, 0, 0, 1))>>],
      [err |-> NoError, addrs |-> <<IPNet(IPv4Short(127, 0, 0, 1)), IPNet(IPv6Loopback)>>],
      [err |-> NoError, addrs |-> <<IPAddr(IPv4(233, 100, 100, 33)), IPNet(IPv4(127, 0, 0, 1))>>] }

\* Remote addresses of requests (http.Request.RemoteAddr); <<>> is the
\* empty string http.NewRequest leaves there.
RemoteAddrs ==
    { <<"127.0.0.1", ":", "8082">>,
      <<"[", ":", ":", "1", "]", ":", "8084">>,
      <<"233.100.100.33", ":", "8082">>,
      <<"32.32.33.33", ":", "8080">>,
      <<"localhost", ":", "80">>,
      <<>> }

----------------------------------------------------------------------------
(* Letters: strings.ToLower and the exported-identifier test.              *)

UpperLetters ==
    <<"A", "B", "C", "D", "E", "F", "G", "H", "I", "J", "K", "L", "M",
      "N", "O", "P", "Q", "R", "S", "T", "U", "V", "W", "X", "Y", "Z">>

LowerLetters ==
    <<"a", "b", "c", "d", "e", "f", "g", "h", "i", "j", "k", "l", "m",
      "n", "o", "p", "q", "r", "s", "t", "u", "v", "w", "x", "y", "z">>

LowerOf(c) == IF IndexOf(UpperLetters, c) # 0 THEN LowerLetters[IndexOf(UpperLetters, c)] ELSE c

\* strings.ToLower.
ToLower(s) == [i \in 1..Len(s) |-> LowerOf(s[i])]

----------------------------------------------------------------------------
(* The codec table: RegisterCodec and the lookup of ServeHTTP.             *)

\* The key RegisterCodec stores a codec under.
CodecKey(contentType) == ToLower(contentType)

\* Server.RegisterCodec: the codec table afterwards.
RegisterCodecTable(table, codec, contentType) ==
    [k \in DOMAIN table \cup {CodecKey(contentType)} |->
        IF k = CodecKey(contentType) THEN codec ELSE table[k]]

\* The request's content type cut at its first ";" (contentType[:idx]).
CutParameters(contentType) ==
    IF IndexOf(contentType, ";") # 0
    THEN SubSeq(contentType, 1, IndexOf(contentType, ";") - 1)
    ELSE contentType

\* A mutant of LookupKey: the parameters are cut, the case is kept.
LookupKeyCaseKept(contentType) == CutParameters(contentType)

\* The key ServeHTTP looks the codec up under.
LookupKey(contentType) == ToLower(CutParameters(contentType))

\* The nil Codec.
NoCodec == ""

\* s.codecs[key]: the codec, NoCodec when the table has none.
CodecAt(table, key) == IF key \in DOMAIN table THEN table[key] ELSE NoCodec

----------------------------------------------------------------------------
(* The response writer (http.ResponseWriter, as httptest.ResponseRecorder  *)
(* and the HTTP server implement it).                                      *)

NoHeader == [ContentType |-> "", XContentTypeOptions |-> ""]

\* code 0: no status written yet.  sent: the header map as it was when the
\* status line was committed.  payload: what a codec encoded into the body.
NewRecorder ==
    [code |-> 0, sent |-> NoHeader, header |-> NoHeader, body |-> <<>>, payload |-> <<>>]

\* w.WriteHeader(status): commits status and headers, once.
WriteHeader(w, status) ==
    IF w.code # 0 THEN w ELSE [w EXCEPT !.code = status, !.sent = w.header]

\* w.Write(data): commits an implicit 200 first when nothing was written.
Write(w, data) ==
    LET v == WriteHeader(w, 200) IN [v EXCEPT !.body = @ \o data]

\* writeError.
writeError(w, status, msg) ==
    LET v == WriteHeader(w, status)
        h == [v EXCEPT !.header.ContentType = "text/plain; charset=utf-8"]
    IN  Write(h, msg)

----------------------------------------------------------------------------
(* Identifiers and receivers.                                              *)

Service1Name == <<"S", "e", "r", "v", "i", "c", "e", "1">>

Service2Name == <<"S", "e", "r", "v", "i", "c", "e", "2">>

FooName == <<"F", "o", "o">>

fooName == <<"f", "o", "o">>

MultiplyName == <<"M", "u", "l", "t", "i", "p", "l", "y">>

ResponseErrorName == <<"R", "e", "s", "p", "o", "n", "s", "e", "E", "r", "r", "o", "r">>

helperName == <<"h", "e", "l", "p", "e", "r">>

\* "Service.Method".
Dotted(service, method) == service \o <<".">> \o method

\* An identifier that begins with an upper-case letter.
IsExported(name) == name # <<>> /\ IndexOf(UpperLetters, name[1]) # 0

\* A method of a receiver type, with what the discovery rules look at: the
\* number of parameters after the receiver, whether the argument and the
\* reply are pointers, whether their types are exported or local, whether
\* the one result is an error; func is the method's body.
MethodOf(name, numIn, pointers, typesOk, returnsError, func) ==
    [name |-> name, numIn |-> numIn, pointers |-> pointers, typesOk |-> typesOk,
     returnsError |-> returnsError, func |-> func]

\* The test services: Service1 with Multiply and ResponseError (and an
\* unexported helper), Service2 without methods.
Service1 ==
    [type |-> Service1Name,
     methods |-> { MethodOf(MultiplyName, 3, TRUE, TRUE, TRUE, "Multiply"),
                   MethodOf(ResponseErrorName, 3, TRUE, TRUE, TRUE, "ResponseError"),
                   MethodOf(helperName, 3, TRUE, TRUE, TRUE, "Multiply") }]

Service2 == [type |-> Service2Name, methods |-> {}]

Receivers == {Service1, Service2}

AddName == <<"A", "d", "d">>

\* Methods that the discovery rules filter out, one for each rule: an
\* unexported name, two parameters instead of three, a parameter that is no
\* pointer, an argument type that is neither exported nor local, a result
\* that is no error.
Filtered ==
    { MethodOf(helperName, 3, TRUE, TRUE, TRUE, "Multiply"),
      MethodOf(<<"T", "w", "o">>, 2, TRUE, TRUE, TRUE, "Multiply"),
      MethodOf(<<"V", "a", "l">>, 3, FALSE, TRUE, TRUE, "Multiply"),
      MethodOf(<<"O", "p", "q">>, 3, TRUE, FALSE, TRUE, "Multiply"),
      MethodOf(<<"N", "a", "y">>, 3, TRUE, TRUE, FALSE, "Multiply") }

\* A receiver with one suitable method among filtered ones, a receiver with
\* filtered methods only, and a receiver of an unexported type.
Service3 ==
    [type |-> <<"S", "e", "r", "v", "i", "c", "e", "3">>,
     methods |-> {MethodOf(AddName, 3, TRUE, TRUE, TRUE, "Multiply")} \cup Filtered]

Service4 == [type |-> <<"S", "e", "r", "v", "i", "c", "e", "4">>, methods |-> Filtered]

service5 ==
    [type |-> <<"s", "e", "r", "v", "i", "c", "e", "5">>,
     methods |-> {MethodOf(MultiplyName, 3, TRUE, TRUE, TRUE, "Multiply")}]

RegistryReceivers == {Service1, Service2, Service3, Service4, service5}

ServiceNames == {<<>>, FooName, fooName}

\* reflect.New of the argument and the reply type: zero-valued instances.
NewArgs == [A |-> 0, B |-> 0]

NewReply == [Result |-> 0]

ErrResponseError == <<"response error">>

\* method.Func.Call: the reply as the method leaves it and the error it
\* returns.
Call(func, args, reply) ==
    IF func = "Multiply"
    THEN [reply |-> [reply EXCEPT !.Result = args.A * args.B], err |-> NoError]
    ELSE [reply |-> reply, err |-> ErrResponseError]

----------------------------------------------------------------------------
(* The service registry: serviceMap.register and serviceMap.get.           *)

\* The methods of a receiver that satisfy the discovery rules.
Qualifying(rcvr) ==
    {m \in rcvr.methods :
        /\ IsExported(m.name)
        /\ m.numIn = 3
        /\ m.pointers
        /\ m.typesOk
        /\ m.returnsError}

\* serviceMap.register: the error and the registry afterwards.
register(svc, rcvr, name) ==
    LET n == IF name = <<>> THEN rcvr.type ELSE name
        q == Qualifying(rcvr)
        table == [k \in {m.name : m \in q} |-> (CHOOSE m \in q : m.name = k).func]
    IN  IF ~IsExported(n)
        THEN [err |-> <<"rpc: type is not exported: ">> \o n, services |-> svc]
        ELSE IF q = {}
        THEN [err |-> <<"rpc: has no exported methods of suitable type: ">> \o n,
              services |-> svc]
        ELSE [err |-> NoError,
              services |-> [k \in DOMAIN svc \cup {n} |->
                               IF k = n THEN [rcvr |-> rcvr.type, methods |-> table]
                               ELSE svc[k]]]

\* serviceMap.get: the error, and the service and method descriptors of a
\* dotted name.
get(svc, method) ==
    LET dots == {i \in 1..Len(method) : method[i] = "."}
        d == CHOOSE i \in dots : TRUE
        sname == SubSeq(method, 1, d - 1)
        mname == SubSeq(method, d + 1, Len(method))
        bad(msg) == [err |-> <<msg>> \o method, rcvr |-> <<>>, func |-> ""]
    IN  IF Cardinality(dots) # 1 THEN bad("rpc: service/method request ill-formed: ")
        ELSE IF sname = <<>> \/ mname = <<>>
        THEN bad("rpc: service/method request ill-formed: ")
        ELSE IF sname \notin DOMAIN svc THEN bad("rpc: can't find service ")
        ELSE IF mname \notin DOMAIN svc[sname].methods THEN bad("rpc: can't find method ")
        ELSE [err |-> NoError, rcvr |-> svc[sname].rcvr, func |-> svc[sname].methods[mname]]

\* A mutant of HasMethod: the test of the error is inverted.
HasMethodInverted(svc, method) == get(svc, method).err # NoError

\* Server.HasMethod.
HasMethod(svc, method) == get(svc, method).err = NoError

\* A mutant of RegisterServiceCall: the name given is not passed on.
RegisterServiceNameDropped(svc, receiver, name) == register(svc, receiver, <<>>)

\* A mutant of RegisterServiceCall: the error of register is not returned.
RegisterServiceErrorSwallowed(svc, receiver, name) ==
    [register(svc, receiver, name) EXCEPT !.err = NoError]

\* A mutant of RegisterServiceCall: the service is registered in a new map.
RegisterServiceNewMap(svc, receiver, name) ==
    LET res == register(<<>>, receiver, name)
    IN  IF res.err # NoError THEN [res EXCEPT !.services = svc] ELSE res

\* Server.RegisterService: the error returned and the registry afterwards.
RegisterServiceCall(svc, receiver, name) == register(svc, receiver, name)

----------------------------------------------------------------------------
(* The dispatcher: Server.ServeHTTP, step by step.  An exchange x is one   *)
(* request being handled: the request r, the response writer w, whether   *)
(* the handler has returned (done), the checks and collaborator calls made *)
(* so far (steps), the codec selected, the method name extracted, the      *)
(* decoded arguments, what the codec's calls returned (results), the       *)
(* invocations made (calls) and the WriteResponse calls made (written).    *)

Begin(r) ==
    [r |-> r, w |-> NewRecorder, done |-> FALSE, steps |-> <<>>, codec |-> NoCodec,
     method |-> <<>>, args |-> NewArgs, results |-> <<>>, calls |-> <<>>, written |-> <<>>]

Step(x, name) == [x EXCEPT !.steps = Append(@, name)]

\* A call of the codec request returned res.
Returned(x, name, res) == [x EXCEPT !.steps = Append(@, name), !.results = Append(@, res)]

\* writeError(w, status, msg) followed by return.
Fail(x, status, msg) == [x EXCEPT !.w = writeError(x.w, status, msg), !.done = TRUE]

\* The admission check of ServeHTTP.
AdmissionStep(allowList, x) ==
    LET err == clientAllowed(allowList, x.r.RemoteAddr)
        y == Step(x, "clientAllowed")
    IN  IF err # NoError THEN Fail(y, 403, err) ELSE y

\* The verb check of ServeHTTP.
VerbStep(x) ==
    LET y == Step(x, "verb")
    IN  IF x.r.Method # "POST"
        THEN Fail(y, 405, <<"rpc: POST method required, received ", x.r.Method>>)
        ELSE y

\* The codec lookup of ServeHTTP.
CodecStep(table, x) ==
    LET codec == CodecAt(table, LookupKey(x.r.ContentType))
        y == Step(x, "codecs")
    IN  IF codec = NoCodec
        THEN Fail(y, 415, <<"rpc: unrecognized Content-Type: ">> \o CutParameters(x.r.ContentType))
        ELSE [y EXCEPT !.codec = codec]

\* A mutant of PreCodec: the verb is checked before the peer.
PreCodecVerbFirst(allowList, table, x) ==
    LET v == VerbStep(x)
        a == AdmissionStep(allowList, v)
    IN  IF v.done THEN v ELSE IF a.done THEN a ELSE CodecStep(table, a)

\* ServeHTTP up to the codec lookup: admission, verb, codec.
PreCodec(allowList, table, x) ==
    LET a == AdmissionStep(allowList, x)
        v == VerbStep(a)
    IN  IF a.done THEN a ELSE IF v.done THEN v ELSE CodecStep(table, v)

\* codec.NewRequest(r) and codecReq.Method(), which returned mo.
MethodStep(x, mo) ==
    LET y == Returned(Step(x, "NewRequest"), "Method", mo)
    IN  IF mo.err # NoError THEN Fail(y, 400, mo.err) ELSE [y EXCEPT !.method = mo.name]

\* s.services.get(method).
ResolveStep(svc, x) ==
    LET g == get(svc, x.method)
        y == Step(x, "get")
    IN  IF g.err # NoError THEN Fail(y, 400, g.err) ELSE y

\* A mutant of ReadStep: a decoding error is ignored.
ReadStepErrorIgnored(x, ro) ==
    [Returned(x, "ReadRequest", ro) EXCEPT !.args = ro.args]

\* reflect.New(argsType) and codecReq.ReadRequest(args), which returned ro.
ReadStep(x, ro) ==
    LET y == Returned(x, "ReadRequest", ro)
    IN  IF ro.err # NoError THEN Fail(y, 400, ro.err) ELSE [y EXCEPT !.args = ro.args]

\* reflect.New(replyType) and method.Func.Call(rcvr, r, args, reply).
InvokeStep(svc, x) ==
    LET g == get(svc, x.method)
        out == Call(g.func, x.args, NewReply)
    IN  [Step(x, "Call") EXCEPT
            !.calls = Append(@, [rcvr |-> g.rcvr, func |-> g.func, args |-> x.args,
                                 reply |-> NewReply, out |-> out])]

\* codecReq.WriteResponse(w, reply, err) of a codec, which ended as wo:
\* "ok" (response written, nil returned), "failEarly" (an error returned
\* before anything was written) or "failLate" (an error returned after the
\* status line was committed).
CodecWrite(w, reply, err, wo) ==
    IF wo = "failEarly" THEN w
    ELSE LET h == [w EXCEPT !.header.ContentType = "application/json; charset=utf-8"]
         IN  IF wo = "failLate" THEN WriteHeader(h, 200)
             ELSE [Write(h, <<"encoded">>) EXCEPT !.payload = <<[reply |-> reply, err |-> err]>>]

ErrWrite == <<"codec: cannot encode the response">>

\* A mutant of RespondStep: the method's error is not handed to the codec.
RespondStepErrorDropped(x, wo) ==
    LET out == x.calls[Len(x.calls)].out
        h == [x.w EXCEPT !.header.XContentTypeOptions = "nosniff"]
        y == [Returned(x, "WriteResponse", wo) EXCEPT
                 !.w = CodecWrite(h, out.reply, NoError, wo),
                 !.written = Append(@, [reply |-> out.reply, err |-> NoError, header |-> h.header, w |-> h]),
                 !.done = TRUE]
    IN  IF wo # "ok" THEN Fail(y, 400, ErrWrite) ELSE y

\* A mutant of RespondStep: an error returned by WriteResponse is not
\* reported.
RespondStepNoFallback(x, wo) ==
    LET out == x.calls[Len(x.calls)].out
        h == [x.w EXCEPT !.header.XContentTypeOptions = "nosniff"]
    IN  [Returned(x, "WriteResponse", wo) EXCEPT
            !.w = CodecWrite(h, out.reply, out.err, wo),
            !.written = Append(@, [reply |-> out.reply, err |-> out.err, header |-> h.header, w |-> h]),
            !.done = TRUE]

\* A mutant of RespondStep: the nosniff header is set after WriteResponse
\* returned.
RespondStepNosniffAfterWrite(x, wo) ==
    LET out == x.calls[Len(x.calls)].out
        c == CodecWrite(x.w, out.reply, out.err, wo)
        y == [Returned(x, "WriteResponse", wo) EXCEPT
                 !.w = [c EXCEPT !.header.XContentTypeOptions = "nosniff"],
                 !.written = Append(@, [reply |-> out.reply, err |-> out.err, header |-> x.w.header, w |-> x.w]),
                 !.done = TRUE]
    IN  IF wo # "ok" THEN Fail(y, 400, ErrWrite) ELSE y

\* The nosniff header, codecReq.WriteResponse(w, reply, errResult), which
\* ended as wo, and the fallback writeError.
RespondStep(x, wo) ==
    LET out == x.calls[Len(x.calls)].out
        h == [x.w EXCEPT !.header.XContentTypeOptions = "nosniff"]
        y == [Returned(x, "WriteResponse", wo) EXCEPT
                 !.w = CodecWrite(h, out.reply, out.err, wo),
                 !.written = Append(@, [reply |-> out.reply, err |-> out.err, header |-> h.header, w |-> h]),
                 !.done = TRUE]
    IN  IF wo # "ok" THEN Fail(y, 400, ErrWrite) ELSE y

----------------------------------------------------------------------------
(* Inputs of the dispatcher.                                               *)

Verbs == {"POST", "GET"}

\* Content types codecs are registered under.
RegisteredTypes == { <<"A", "/", "J">>, <<"a", "/", "j", ";", "q">>, <<>> }

\* Content-Type headers of requests; <<>> is a request without one.
RequestTypes == { <<"a", "/", "J">>, <<"a", "/", "j", ";", "q">>, <<>> }

Codecs == {"json"}

Requests == [RemoteAddr : RemoteAddrs, Method : Verbs, ContentType : RequestTypes]

\* What codecReq.Method() may return.
MethodOutcomes ==
    { [name |-> <<>>, err |-> <<"unexpected end of JSON input">>] } \cup
    { [name |-> n, err |-> NoError] :
        n \in { Dotted(Service1Name, MultiplyName), Dotted(Service1Name, ResponseErrorName),
                Dotted(FooName, MultiplyName), Dotted(Service1Name, helperName),
                Service1Name } }

\* What codecReq.ReadRequest(args) may return, with args as it leaves it.
ReadOutcomes ==
    { [args |-> NewArgs, err |-> <<"json: cannot unmarshal string into Go value">>],
      [args |-> [A |-> 4, B |-> 2], err |-> NoError] }

WriteOutcomes == {"ok", "failEarly", "failLate"}

----------------------------------------------------------------------------
(* The state machine.                                                      *)

Init ==
    /\ allow = <<>>
    /\ codecs = <<>>
    /\ services = <<>>
    /\ lastBind = [via |-> "none", args |-> <<>>, addrs |-> <<>>]
    /\ last = [op |-> "NewServer"]
    /\ heap = <<>>
    /\ handlers = <<>>

\* Server.RegisterCodec(codec, contentType).
RegisterCodec ==
    \E codec \in Codecs, contentType \in RegisteredTypes :
        /\ Cardinality(DOMAIN RegisterCodecTable(codecs, codec, contentType)) <= MaxCodecs
        /\ codecs' = RegisterCodecTable(codecs, codec, contentType)
        /\ last' = [op |-> "RegisterCodec", codec |-> codec, contentType |-> contentType]
        /\ UNCHANGED <<heap, handlers, allow, services, lastBind>>

\* Server.RegisterService(receiver, name).
RegisterService ==
    \E rcvr \in Receivers, name \in ServiceNames :
        /\ services' = RegisterServiceCall(services, rcvr, name).services
        /\ last' = [op |-> "RegisterService", rcvr |-> rcvr.type, name |-> name,
                    err |-> RegisterServiceCall(services, rcvr, name).err]
        /\ UNCHANGED <<heap, handlers, allow, codecs, lastBind>>

\* Server.Bind(ips...).
Bind ==
    \E ips \in BindArgs :
        /\ allow' = BindAllow(allow, ips)
        /\ lastBind' = [via |-> "Bind", args |-> ips, addrs |-> <<>>]
        /\ last' = [op |-> "Bind"]
        /\ UNCHANGED <<heap, handlers, codecs, services>>

\* Server.BindLocal(), net.InterfaceAddrs returning ia.
BindLocal ==
    \E ia \in InterfaceAddrs :
        LET out == BindLocalOutcome(allow, ia)
        IN  /\ allow' = out.allow
            /\ lastBind' = IF out.err = NoError
                           THEN [via |-> "BindLocal", args |-> LocalIPs(ia.addrs), addrs |-> ia.addrs]
                           ELSE lastBind
            /\ last' = [op |-> "BindLocal", ia |-> ia, err |-> out.err, before |-> allow]
            /\ UNCHANGED <<heap, handlers, codecs, services>>

\* A mutant of Served: the handler remembers the codec it selected under
\* the content type as the request gave it.
ServedCodecRemembered(x) ==
    /\ last' = [op |-> "ServeHTTP", x |-> x]
    /\ codecs' = IF x.codec = NoCodec THEN codecs
                 ELSE [k \in DOMAIN codecs \cup {x.r.ContentType} |->
                          IF k = x.r.ContentType THEN x.codec ELSE codecs[k]]
    /\ UNCHANGED <<heap, handlers, allow, services, lastBind>>

\* The handler has returned: the exchange is what the client and the
\* collaborators saw.
Served(x) ==
    /\ last' = [op |-> "ServeHTTP", x |-> x]
    /\ UNCHANGED <<heap, handlers, allow, codecs, services, lastBind>>

\* Server.ServeHTTP(w, r).  The results of the codec's calls are chosen when
\* the handler makes the call.
ServeHTTP ==
    \E r \in Requests :
        \E x1 \in {PreCodec(allow, codecs, Begin(r))} :
            IF x1.done THEN Served(x1)
            ELSE \E mo \in MethodOutcomes :
                \E x2 \in {MethodStep(x1, mo)} :
                    IF x2.done THEN Served(x2)
                    ELSE \E x3 \in {ResolveStep(services, x2)} :
                        IF x3.done THEN Served(x3)
                        ELSE \E ro \in ReadOutcomes :
                            \E x4 \in {ReadStep(x3, ro)} :
                                IF x4.done THEN Served(x4)
                                ELSE \E x5 \in {InvokeStep(services, x4)} :
                                    \E wo \in WriteOutcomes :
                                        Served(RespondStep(x5, wo))

Next == RegisterCodec \/ RegisterService \/ Bind \/ BindLocal \/ ServeHTTP

Spec == Init /\ [][Next]_vars

----------------------------------------------------------------------------
(* The registry on its own: registrations of receivers of every kind and   *)
(* HasMethod queries, on a server that does nothing else.                  *)

\* Dotted names asked for: registered ones, each filtered method, names
\* without or with two separators, with an empty part, of an unknown service
\* or method, and proper prefixes of registered names.
MethodQueries ==
    {Dotted(sv, m) : sv \in {Service1Name, FooName, Service3.type},
                    m \in {MultiplyName, AddName} \cup {f.name : f \in Filtered}}
    \cup { <<>>,
           Service1Name \o MultiplyName,
           Dotted(Dotted(Service1Name, MultiplyName), MultiplyName),
           Dotted(<<>>, MultiplyName),
           Dotted(Service1Name, <<>>),
           <<".">>,
           Dotted(Service2Name, MultiplyName),
           Dotted(SubSeq(Service1Name, 1, 7), MultiplyName),
           Dotted(Service1Name, SubSeq(MultiplyName, 1, 5)) }

\* Server.RegisterService(receiver, name), with the registry as it was.
RegisterReceiver ==
    \E rcvr \in RegistryReceivers, name \in ServiceNames :
        \E res \in {RegisterServiceCall(services, rcvr, name)} :
            /\ services' = res.services
            /\ last' = [op |-> "RegisterService", receiver |-> rcvr, name |-> name,
                        err |-> res.err, before |-> services]
            /\ UNCHANGED <<heap, handlers, allow, codecs, lastBind>>

\* Server.HasMethod(method).
HasMethodQuery ==
    \E method \in MethodQueries :
        /\ last' = [op |-> "HasMethod", method |-> method,
                    result |-> HasMethod(services, method), before |-> services]
        /\ UNCHANGED <<heap, handlers, allow, codecs, services, lastBind>>

RegistryNext == RegisterReceiver \/ HasMethodQuery

RegistrySpec == Init /\ [][RegistryNext]_vars

----------------------------------------------------------------------------
(* Requests handled concurrently.  The HTTP server runs ServeHTTP once per *)
(* request, each run in a goroutine of its own, on a server whose codec    *)
(* and service were registered before.  A run is followed statement by     *)
(* statement from the resolution of the method on; args and reply are      *)
(* pointers into the heap.                                                 *)

\* A mutant of reflectNew: an instance of the type that exists already is
\* handed out again.
reflectNewPooled(hp, zero) ==
    LET same == {i \in 1..Len(hp) : DOMAIN hp[i] = DOMAIN zero}
    IN  IF same = {} THEN [heap |-> Append(hp, zero), ptr |-> Len(hp) + 1]
        ELSE [heap |-> hp, ptr |-> CHOOSE i \in same : \A j \in same : i <= j]

\* reflect.New(type): the heap with a new zero-valued instance, and the
\* pointer to it.
reflectNew(hp, zero) == [heap |-> Append(hp, zero), ptr |-> Len(hp) + 1]

\* What the bodies of the concurrent requests hold: the method and the
\* arguments.
Bodies ==
    [method : {Dotted(Service1Name, MultiplyName), Dotted(Service1Name, ResponseErrorName)},
     args : {[A |-> 4, B |-> 2], [A |-> 3, B |-> 5]}]

NoPointer == 0

\* A goroutine that has not resolved its method yet.
Accepted ==
    [pc |-> "get", body |-> <<>>, func |-> "", args |-> NoPointer, reply |-> NoPointer,
     fresh |-> <<>>, errResult |-> NoError, written |-> <<>>]

ConcInit ==
    /\ allow = <<>>
    /\ codecs = RegisterCodecTable(<<>>, "json", <<"a", "/", "j">>)
    /\ services = RegisterServiceCall(<<>>, Service1, <<>>).services
    /\ lastBind = [via |-> "none", args |-> <<>>, addrs |-> <<>>]
    /\ last = [op |-> "NewServer"]
    /\ heap = <<>>
    /\ handlers = [h \in 1..MaxRequests |-> Accepted]

Quiesced == UNCHANGED <<allow, codecs, services, lastBind, last>>

\* codecReq.Method() and s.services.get(method) of a request that passed
\* the checks before.
GetStep(h) ==
    /\ handlers[h].pc = "get"
    /\ \E body \in Bodies :
           \E g \in {get(services, body.method)} :
               /\ g.err = NoError
               /\ handlers' = [handlers EXCEPT ![h].pc = "newArgs", ![h].body = body,
                                               ![h].func = g.func]
    /\ UNCHANGED heap
    /\ Quiesced

\* args := reflect.New(methodSpec.argsType).
NewArgsStep(h) ==
    /\ handlers[h].pc = "newArgs"
    /\ \E n \in {reflectNew(heap, NewArgs)} :
           /\ heap' = n.heap
           /\ handlers' = [handlers EXCEPT ![h].pc = "read", ![h].args = n.ptr,
                                           ![h].fresh = Append(@, n.heap[n.ptr])]
    /\ Quiesced

\* codecReq.ReadRequest(args.Interface()): the body is decoded into the
\* instance args points to.
ReadRequestStep(h) ==
    /\ handlers[h].pc = "read"
    /\ heap' = [heap EXCEPT ![handlers[h].args] = handlers[h].body.args]
    /\ handlers' = [handlers EXCEPT ![h].pc = "newReply"]
    /\ Quiesced

\* reply := reflect.New(methodSpec.replyType).
NewReplyStep(h) ==
    /\ handlers[h].pc = "newReply"
    /\ \E n \in {reflectNew(heap, NewReply)} :
           /\ heap' = n.heap
           /\ handlers' = [handlers EXCEPT ![h].pc = "call", ![h].reply = n.ptr,
                                           ![h].fresh = Append(@, n.heap[n.ptr])]
    /\ Quiesced

\* methodSpec.method.Func.Call(rcvr, r, args, reply).
CallStep(h) ==
    /\ handlers[h].pc = "call"
    /\ \E out \in {Call(handlers[h].func, heap[handlers[h].args], heap[handlers[h].reply])} :
           /\ heap' = [heap EXCEPT ![handlers[h].reply] = out.reply]
           /\ handlers' = [handlers EXCEPT ![h].pc = "write", ![h].errResult = out.err]
    /\ Quiesced

\* codecReq.WriteResponse(w, reply.Interface(), errResult).
WriteResponseStep(h) ==
    /\ handlers[h].pc = "write"
    /\ handlers' = [handlers EXCEPT ![h].pc = "done",
                                    ![h].written = <<heap[handlers[h].reply]>>]
    /\ UNCHANGED heap
    /\ Quiesced

ConcNext ==
    \E h \in 1..MaxRequests :
        \/ GetStep(h)
        \/ NewArgsStep(h)
        \/ ReadRequestStep(h)
        \/ NewReplyStep(h)
        \/ CallStep(h)
        \/ WriteResponseStep(h)

ConcSpec == ConcInit /\ [][ConcNext]_vars

----------------------------------------------------------------------------
(* json.Error.  A Go value held in an interface{} is a record of its       *)
(* dynamic type t and its value v, written as text; an object is a function *)
(* from keys to such values; JSON text is a sequence of tokens.             *)

GoValue(t, v) == [t |-> t, v |-> v]

\* The keys used, in the order in which json.Marshal writes the keys of a
\* map.
SortedKeys == <<"code", "data", "message">>

NumberTokens == {"42", "-1"}

\* Values a service may put into an error object: integers, a float, a
\* string, and a channel, which JSON cannot represent.
GoValues ==
    { GoValue("int", "42"), GoValue("int", "-1"), GoValue("float64", "42"),
      GoValue("string", "this is error"), GoValue("chan", "0xc000012345") }

EmptyObject == <<>>

Put(object, key, value) ==
    [k \in DOMAIN object \cup {key} |-> IF k = key THEN value ELSE object[k]]

\* Every map from some of the keys to those values.
Objects ==
    UNION {[ks -> GoValues] : ks \in SUBSET Range(SortedKeys)}

\* json.Marshal of one value.
MarshalValue(x) ==
    IF x.t = "string" THEN <<"\"", x.v, "\"">> ELSE <<x.v>>

RECURSIVE MarshalMembers(_, _, _)
MarshalMembers(object, i, first) ==
    IF i > Len(SortedKeys) THEN <<>>
    ELSE IF SortedKeys[i] \notin DOMAIN object THEN MarshalMembers(object, i + 1, first)
    ELSE (IF first THEN <<>> ELSE <<",">>)
             \o <<"\"", SortedKeys[i], "\"", ":">> \o MarshalValue(object[SortedKeys[i]])
             \o MarshalMembers(object, i + 1, FALSE)

\* json.Marshal of a map[string]interface{}: the error and the text.
Marshal(object) ==
    IF \E k \in DOMAIN object : object[k].t = "chan"
    THEN [err |-> <<"json: unsupported type: chan int">>, text |-> <<>>]
    ELSE [err |-> NoError, text |-> <<"{">> \o MarshalMembers(object, 1, TRUE) \o <<"}">>]

At(text, i) == IF i \in 1..Len(text) THEN text[i] ELSE ""

SyntaxError == <<"invalid character">>

\* The members of a JSON object from token i on, added to object: a number
\* is decoded as a float64, a later member replaces an earlier one of its
\* key.
RECURSIVE UnmarshalMembers(_, _, _)
UnmarshalMembers(text, i, object) ==
    LET key == At(text, i + 1)
        wellKeyed == /\ At(text, i) = "\"" /\ key # "" /\ At(text, i + 2) = "\""
                     /\ At(text, i + 3) = ":"
        isString == At(text, i + 4) = "\"" /\ At(text, i + 6) = "\""
        isNumber == At(text, i + 4) \in NumberTokens
        value == IF isString THEN GoValue("string", At(text, i + 5))
                 ELSE GoValue("float64", At(text, i + 4))
        next == IF isString THEN i + 7 ELSE i + 5
    IN  IF ~wellKeyed \/ ~(isString \/ isNumber)
        THEN [err |-> SyntaxError, object |-> EmptyObject]
        ELSE IF At(text, next) = "}" /\ next = Len(text)
        THEN [err |-> NoError, object |-> Put(object, key, value)]
        ELSE IF At(text, next) = ","
        THEN UnmarshalMembers(text, next + 1, Put(object, key, value))
        ELSE [err |-> SyntaxError, object |-> EmptyObject]

\* json.Unmarshal of a text into a map[string]interface{}.
Unmarshal(text) ==
    IF text = <<>>
    THEN [err |-> <<"unexpected end of JSON input">>, object |-> EmptyObject]
    ELSE IF text = <<"null">> \/ text = <<"{", "}">>
    THEN [err |-> NoError, object |-> EmptyObject]
    ELSE IF At(text, 1) # "{"
    THEN [err |-> <<"json: cannot unmarshal into Go value of type map">>,
          object |-> EmptyObject]
    ELSE UnmarshalMembers(text, 2, EmptyObject)

RECURSIVE SprintfMembers(_, _)
SprintfMembers(object, i) ==
    IF i > Len(SortedKeys) THEN ""
    ELSE IF SortedKeys[i] \notin DOMAIN object THEN SprintfMembers(object, i + 1)
    ELSE SortedKeys[i] \o ":" \o object[SortedKeys[i]].v \o " " \o SprintfMembers(object, i + 1)

\* fmt.Sprintf("%+v", object).
Sprintf(object) == "map[" \o SprintfMembers(object, 1) \o "]"

NilError == [object |-> EmptyObject, blob |-> <<"nil">>]

\* NewErrorBlob(blob): the error and the *Error.
NewErrorBlob(blob) ==
    LET u == Unmarshal(blob)
    IN  IF u.err # NoError THEN [err |-> u.err, e |-> NilError]
        ELSE [err |-> NoError, e |-> [object |-> u.object, blob |-> blob]]

\* NewErrorObject(object): the *Error.
NewErrorObject(object) ==
    LET m == Marshal(object)
    IN  IF m.err # NoError
        THEN [object |-> Put(Put(EmptyObject, "code", GoValue("int", "-1")),
                             "message", GoValue("string", Sprintf(object))),
              blob |-> <<>>]
        ELSE [object |-> object, blob |-> m.text]

\* Error.Error().
Error(e) == e.blob

\* Error.Object().
Object(e) == e.object

\* Blobs handed to NewErrorBlob: the one of the test, one with a string
\* code and a repeated key, the empty object, null, and texts that are no
\* JSON object.
Blobs ==
    { <<"{", "\"", "code", "\"", ":", "42", ",", "\"", "message", "\"", ":",
        "\"", "this is error", "\"", "}">>,
      <<"{", "\"", "message", "\"", ":", "\"", "a", "\"", ",", "\"", "code", "\"", ":",
        "\"", "42", "\"", ",", "\"", "message", "\"", ":", "\"", "b", "\"", "}">>,
      <<"{", "}">>,
      <<"null">>,
      <<>>,
      <<"42">>,
      <<"{", "\"", "code", "\"", ":", "42">>,
      <<"{", "\"", "code", "\"", ":", "nil", "}">> }

\* A service method builds its error with NewErrorBlob.
NewErrorBlobCall ==
    \E blob \in Blobs :
        \E res \in {NewErrorBlob(blob)} :
            /\ last' = [op |-> "NewErrorBlob", err |-> res.err, e |-> res.e]
            /\ UNCHANGED <<heap, handlers, allow, codecs, services, lastBind>>

\* A service method builds its error with NewErrorObject.
NewErrorObjectCall ==
    \E object \in Objects :
        /\ last' = [op |-> "NewErrorObject", err |-> NoError, e |-> NewErrorObject(object)]
        /\ UNCHANGED <<heap, handlers, allow, codecs, services, lastBind>>

\* The receiving side rebuilds the error from the text of Error().
Rebuild ==
    /\ last.op \in {"NewErrorBlob", "NewErrorObject"}
    /\ last.err = NoError
    /\ \E res \in {NewErrorBlob(Error(last.e))} :
           last' = [op |-> "Rebuild", via |-> last.op, original |-> last.e,
                    err |-> res.err, e |-> res.e]
    /\ UNCHANGED <<heap, handlers, allow, codecs, services, lastBind>>

JsonNext == NewErrorBlobCall \/ NewErrorObjectCall \/ Rebuild

JsonSpec == Init /\ [][JsonNext]_vars

----------------------------------------------------------------------------
(* Vocabulary of the properties.                                           *)

\* The last operation was a request, and its exchange.
IsServed == last.op = "ServeHTTP"

Exchange == last.x

StatusCode == Exchange.w.code

\* The order of the checks and calls of one request.
DispatchOrder ==
    <<"clientAllowed", "verb", "codecs", "NewRequest", "Method", "get", "ReadRequest",
      "Call", "WriteResponse">>

IsPrefix(s, t) == Len(s) <= Len(t) /\ s = SubSeq(t, 1, Len(s))

\* host:port with an IP-literal host.
WellFormed(remoteAddr) ==
    /\ SplitHostPort(remoteAddr).err = NoError
    /\ ParseIP(SplitHostPort(remoteAddr).host) # NilIP

RemoteIP(remoteAddr) == ParseIP(SplitHostPort(remoteAddr).host)

\* The 16-byte form of an IP address.
To16(ip) == IF Len(ip) = 4 THEN IPv4(ip[1], ip[2], ip[3], ip[4]) ELSE ip

\* Two IP values denote the same address.
SameIP(a, b) == To16(a) = To16(b)

\* The remote address is that of some entry of the list.
Listed(list, remoteAddr) ==
    WellFormed(remoteAddr) /\ \E i \in 1..Len(list) : SameIP(list[i], RemoteIP(remoteAddr))

----------------------------------------------------------------------------
(* C1.                                                                     *)

\* C1: the checks of a request run in the order admission, verb, codec
\* lookup, method extraction, resolution, argument decoding, and the handler
\* stops at the first that fails: a peer that is not permitted gets 403
\* whatever its verb and content type, a permitted non-POST request 405
\* whatever its content type, a permitted POST with an unregistered content
\* type 415 with no codec or registry step run.
C1_FirstFailureDecides ==
    IsServed =>
        LET x == Exchange
            denied == ~(allow = <<>> \/ Listed(allow, x.r.RemoteAddr))
            nonPost == x.r.Method # "POST"
            noCodec == LookupKey(x.r.ContentType) \notin DOMAIN codecs
        IN  /\ IsPrefix(x.steps, DispatchOrder)
            /\ denied => StatusCode = 403 /\ x.steps = SubSeq(DispatchOrder, 1, 1)
            /\ ~denied /\ nonPost => StatusCode = 405 /\ x.steps = SubSeq(DispatchOrder, 1, 2)
            /\ ~denied /\ ~nonPost /\ noCodec =>
                   /\ StatusCode = 415
                   /\ x.steps = SubSeq(DispatchOrder, 1, 3)
                   /\ x.results = <<>> /\ x.calls = <<>> /\ x.written = <<>>
            /\ ~denied /\ ~nonPost /\ ~noCodec => Len(x.steps) >= 5

\* A rejected peer whose request is also a GET without a registered content
\* type: the answer is 403.
C1_Witness ==
    /\ IsServed
    /\ allow # <<>> /\ ~Listed(allow, Exchange.r.RemoteAddr)
    /\ Exchange.r.Method = "GET"
    /\ LookupKey(Exchange.r.ContentType) \notin DOMAIN codecs
    /\ StatusCode = 403

----------------------------------------------------------------------------
(* C2.                                                                     *)

\* C2: while the allow-list is empty (no Bind yet, or the last Bind was given
\* no addresses) no request is answered 403, whatever its remote address.
C2_EmptyListPermitsAll ==
    /\ (lastBind.via = "none" \/ lastBind.args = <<>>) => allow = <<>>
    /\ (IsServed /\ allow = <<>>) => StatusCode # 403

\* After Bind() without addresses, a request whose remote address is no
\* host:port at all was handled and not rejected.
C2_Witness ==
    /\ IsServed
    /\ lastBind.via = "Bind" /\ lastBind.args = <<>>
    /\ ~WellFormed(Exchange.r.RemoteAddr)
    /\ StatusCode # 403

----------------------------------------------------------------------------
(* C3.                                                                     *)

\* C3 as stated: with an empty allow-list a request is admitted exactly when
\* its remote address is well formed; a malformed one is rejected with 403.
C3_EmptyListRejectsMalformed ==
    (IsServed /\ allow = <<>>) =>
        (StatusCode = 403 <=> ~WellFormed(Exchange.r.RemoteAddr))

\* C3, amended: with an empty allow-list every remote address is admitted,
\* well formed or not; a malformed remote address is rejected (403, the
\* malformed-address error) exactly when the allow-list is not empty.
C3_MalformedRejectedOnlyWhenBound ==
    IsServed =>
        LET x == Exchange
        IN  /\ allow = <<>> => StatusCode # 403
            /\ ~WellFormed(x.r.RemoteAddr) =>
                   (allow # <<>> <=>
                        /\ StatusCode = 403
                        /\ IsPrefix(ErrMalformedRemoteIp, x.w.body))

\* A request without a remote address, as http.NewRequest builds it, was
\* dispatched to a method by a server that never called Bind.
C3_Witness ==
    /\ IsServed
    /\ allow = <<>>
    /\ Exchange.r.RemoteAddr = <<>>
    /\ StatusCode = 200
    /\ Len(Exchange.calls) = 1

----------------------------------------------------------------------------
(* C4.                                                                     *)

\* C4: with a non-empty allow-list a request passes admission exactly when
\* its remote address is host:port with an IP-literal host whose IP is that
\* of some entry; a well-formed address of no entry is rejected with
\* ErrRemoteNotAllowed, a malformed one with ErrMalformedRemoteIp, both 403.
\* Binding only the IPv4 loopback does not admit ::1, nor the converse.
C4_AdmitsExactlyListed ==
    (IsServed /\ allow # <<>>) =>
        LET x == Exchange
            addr == x.r.RemoteAddr
        IN  /\ StatusCode # 403 <=> Listed(allow, addr)
            /\ (WellFormed(addr) /\ ~Listed(allow, addr)) =>
                   StatusCode = 403 /\ x.w.body = ErrRemoteNotAllowed
            /\ ~WellFormed(addr) =>
                   StatusCode = 403 /\ IsPrefix(ErrMalformedRemoteIp, x.w.body)
            /\ (\A i \in 1..Len(allow) : SameIP(allow[i], IPv4(127, 0, 0, 1))) =>
                   (RemoteIP(addr) = IPv6Loopback => StatusCode = 403)
            /\ (\A i \in 1..Len(allow) : allow[i] = IPv6Loopback) =>
                   (RemoteIP(addr) = IPv4(127, 0, 0, 1) => StatusCode = 403)

\* Only the IPv4 loopback is bound, in its 4-byte form, and a request from
\* 127.0.0.1 passed admission.
C4_Witness ==
    /\ IsServed
    /\ allow = <<IPv4Short(127, 0, 0, 1)>>
    /\ RemoteIP(Exchange.r.RemoteAddr) = IPv4(127, 0, 0, 1)
    /\ StatusCode # 403

----------------------------------------------------------------------------
(* C5.                                                                     *)

\* C5: Bind replaces the permitted set wholesale: the allow-list is exactly
\* the argument list of the most recent Bind call, so that a request is
\* admitted exactly when that list is empty or holds its address, whatever
\* was bound before.
C5_BindReplaces ==
    /\ allow = lastBind.args
    /\ (IsServed /\ lastBind.via = "Bind") =>
           (StatusCode # 403 <=>
                (lastBind.args = <<>> \/ Listed(lastBind.args, Exchange.r.RemoteAddr)))

\* The last Bind named only ::1, and a request from 127.0.0.1, an address
\* other Bind calls name, was rejected.
C5_Witness ==
    /\ IsServed
    /\ lastBind.via = "Bind" /\ lastBind.args = <<IPv6Loopback>>
    /\ RemoteIP(Exchange.r.RemoteAddr) = IPv4(127, 0, 0, 1)
    /\ StatusCode = 403

----------------------------------------------------------------------------
(* C6.                                                                     *)

\* The IP addresses local interface enumeration reported to the last
\* successful BindLocal.
Enumerated == [i \in 1..Len(lastBind.addrs) |-> lastBind.addrs[i].ip]

\* C6: after a successful BindLocal the allow-list is not empty and a
\* request is permitted exactly when its address is one that local interface
\* enumeration reported; any other gets 403.
C6_BindLocalAdmitsExactlyEnumerated ==
    lastBind.via = "BindLocal" =>
        /\ allow # <<>>
        /\ IsServed =>
               (StatusCode # 403 <=> Listed(Enumerated, Exchange.r.RemoteAddr))

----------------------------------------------------------------------------
(* C7.                                                                     *)

\* C7: BindLocal returns the enumeration error unchanged when enumeration
\* fails and ErrEmptyBindLocal when enumeration yields no *net.IPNet
\* address; in both cases the allow-list is the one before the call.
C7_BindLocalFailureKeepsList ==
    last.op = "BindLocal" =>
        LET usable == {i \in 1..Len(last.ia.addrs) : last.ia.addrs[i].kind = "IPNet"}
        IN  /\ last.ia.err # NoError => last.err = last.ia.err /\ allow = last.before
            /\ (last.ia.err = NoError /\ usable = {}) =>
                   last.err = ErrEmptyBindLocal /\ allow = last.before
            /\ last.err # NoError => allow = last.before

\* BindLocal found no usable address on a server bound to ::1 and left it
\* bound to ::1.
C7_Witness ==
    /\ last.op = "BindLocal"
    /\ last.ia.err = NoError
    /\ last.err = ErrEmptyBindLocal
    /\ last.before = <<IPv6Loopback>>
    /\ allow = <<IPv6Loopback>>

----------------------------------------------------------------------------
(* C8.                                                                     *)

\* The content type h is the registered key k up to letter case and
\* trailing ";" parameters.
MatchesType(h, k) ==
    \E n \in 0..Len(h) :
        /\ n = Len(h) \/ h[n + 1] = ";"
        /\ ToLower(SubSeq(h, 1, n)) = k

\* The request got as far as the codec lookup.
LookedUp == IsServed /\ Len(Exchange.steps) >= 3

\* C8 as stated: a request whose content type differs from a registered one
\* only in letter case or by trailing ";" parameters selects that codec, and
\* a content type that matches no registered one in this way yields 415.
C8_CaseAndParametersIgnored ==
    LookedUp =>
        LET h == Exchange.r.ContentType
            M == {k \in DOMAIN codecs : MatchesType(h, k)}
        IN  /\ \A k \in M : Exchange.codec = codecs[k] /\ StatusCode # 415
            /\ M = {} => StatusCode = 415

\* C8, amended: the codec table is keyed by lower-cased content types, and
\* a request whose content type differs from a registered one only in letter
\* case or by trailing ";" parameters selects that codec provided the
\* registered content type holds no ";" itself (a codec registered under one
\* that does is never selected); a content type matching no such
\* registration yields 415, a missing one too unless a codec is registered
\* under the empty content type.
C8_CaseAndParametersIgnoredUnlessRegisteredWithParameters ==
    /\ \A k \in DOMAIN codecs : k = ToLower(k)
    /\ last.op = "RegisterCodec" =>
           /\ ToLower(last.contentType) \in DOMAIN codecs
           /\ codecs[ToLower(last.contentType)] = last.codec
    /\ LookedUp =>
           LET h == Exchange.r.ContentType
               M == {k \in DOMAIN codecs : ";" \notin Range(k) /\ MatchesType(h, k)}
           IN  /\ \A k \in M : Exchange.codec = codecs[k] /\ StatusCode # 415
               /\ M = {} => StatusCode = 415 /\ Exchange.codec = NoCodec

\* A codec registered as "A/J" was selected for a request sent as
\* "a/j;q".
C8_Witness ==
    /\ IsServed
    /\ DOMAIN codecs = {<<"a", "/", "j">>}
    /\ Exchange.r.ContentType = <<"a", "/", "j", ";", "q">>
    /\ Exchange.codec = "json"

----------------------------------------------------------------------------
(* C9.                                                                     *)

\* The request passed admission, verb check and codec lookup.
CodecSelected == IsServed /\ Exchange.codec # NoCodec

\* The handler answered `status` with `msg` as body and neither invoked a
\* method nor called WriteResponse.
RejectedWith(status, msg) ==
    /\ StatusCode = status
    /\ Exchange.w.body = msg
    /\ Exchange.calls = <<>>
    /\ Exchange.written = <<>>
    /\ "Call" \notin Range(Exchange.steps)
    /\ "WriteResponse" \notin Range(Exchange.steps)

\* C9: for a permitted POST with a registered codec, a failure of method
\* extraction, of resolution (malformed name, unknown service, unknown
\* method) or of argument decoding yields 400 with the error's message as
\* body; the method is not invoked and WriteResponse is not called.
C9_FailureBeforeInvocationIs400 ==
    CodecSelected =>
        LET x == Exchange
            mo == x.results[1]
            ro == x.results[2]
        IN  /\ mo.err # NoError => RejectedWith(400, mo.err)
            /\ (mo.err = NoError /\ ~HasMethod(services, mo.name)) =>
                   RejectedWith(400, get(services, mo.name).err)
            /\ (mo.err = NoError /\ HasMethod(services, mo.name) /\ ro.err # NoError) =>
                   RejectedWith(400, ro.err)

\* The body of a request for a registered method could not be decoded into
\* its argument type.
C9_Witness ==
    /\ CodecSelected
    /\ Len(Exchange.results) = 2
    /\ HasMethod(services, Exchange.results[1].name)
    /\ Exchange.results[2].err # NoError
    /\ StatusCode = 400

----------------------------------------------------------------------------
(* C10.                                                                    *)

\* Admission, verb, codec lookup, method extraction, resolution and argument
\* decoding all succeeded.
Dispatched ==
    /\ CodecSelected
    /\ Len(Exchange.results) >= 2
    /\ Exchange.results[1].err = NoError
    /\ HasMethod(services, Exchange.results[1].name)
    /\ Exchange.results[2].err = NoError

\* C10: when every check succeeds the resolved method is invoked exactly
\* once, with the decoded arguments and a fresh reply, and WriteResponse is
\* then called exactly once with that reply and the error the method
\* returned, nil or not; an application error is not answered with a 4xx
\* status by the dispatcher.
C10_InvokedOnceThenWritten ==
    Dispatched =>
        LET x == Exchange
            g == get(services, x.results[1].name)
        IN  /\ Len(x.calls) = 1
            /\ x.calls[1].func = g.func /\ x.calls[1].rcvr = g.rcvr
            /\ x.calls[1].args = x.results[2].args
            /\ x.calls[1].reply = NewReply
            /\ x.calls[1].out = Call(g.func, x.results[2].args, NewReply)
            /\ Len(x.written) = 1
            /\ x.written[1].reply = x.calls[1].out.reply
            /\ x.written[1].err = x.calls[1].out.err
            /\ SubSeq(x.steps, Len(x.steps) - 1, Len(x.steps)) = <<"Call", "WriteResponse">>
            /\ x.results[3] = "ok" =>
                   /\ StatusCode = 200
                   /\ x.w.payload = <<[reply |-> x.calls[1].out.reply, err |-> x.calls[1].out.err]>>
            /\ (g.func = "Multiply" /\ x.results[2].args = [A |-> 4, B |-> 2]) =>
                   x.written[1].reply.Result = 8

\* A method returned an application error, the codec encoded it and the
\* response status is 200.
C10_Witness ==
    /\ Dispatched
    /\ Exchange.calls[1].out.err = ErrResponseError
    /\ Exchange.written[1].err = ErrResponseError
    /\ StatusCode = 200

----------------------------------------------------------------------------
(* C11.                                                                    *)

\* C11: on every dispatch that reaches invocation the header
\* x-content-type-options: nosniff is in the response headers when the
\* codec's WriteResponse is called, and nothing of the response, status or
\* body, was written before that call; whatever status line is committed for
\* the request carries the header.
C11_NosniffBeforeWriteResponse ==
    Dispatched =>
        LET x == Exchange
        IN  /\ Len(x.written) = 1
            /\ x.written[1].w.header.XContentTypeOptions = "nosniff"
            /\ x.written[1].w.code = 0
            /\ x.written[1].w.body = <<>>
            /\ x.w.code # 0 => x.w.sent.XContentTypeOptions = "nosniff"

\* A dispatch whose response the codec wrote: the committed headers carry
\* nosniff and the codec's content type.
C11_Witness ==
    /\ Dispatched
    /\ Exchange.results[3] = "ok"
    /\ StatusCode = 200
    /\ Exchange.w.sent.XContentTypeOptions = "nosniff"
    /\ Exchange.w.sent.ContentType = "application/json; charset=utf-8"

----------------------------------------------------------------------------
(* C12.                                                                    *)

\* WriteResponse of a dispatched request returned an error.
WriteFailed == Dispatched /\ Exchange.results[3] # "ok"

\* C12 as stated: when WriteResponse returns an error the response status
\* is 400 and the body is that error's message.
C12_WriteFailureIs400 ==
    WriteFailed => (StatusCode = 400 /\ Exchange.w.body = ErrWrite)

\* C12, amended: when WriteResponse returns an error the error's message is
\* written to the body as it is; the status is 400 exactly when the codec had
\* committed no status line before it failed, and otherwise the status the
\* codec committed stands.
C12_WriteFailureIs400UnlessCommitted ==
    WriteFailed =>
        LET x == Exchange
        IN  /\ x.w.body = ErrWrite
            /\ x.results[3] = "failEarly" => StatusCode = 400
            /\ x.results[3] = "failLate" =>
                   /\ StatusCode = 200
                   /\ x.w.sent.ContentType = "application/json; charset=utf-8"

\* The codec failed before it wrote anything and the response is 400 with
\* the codec's message.
C12_Witness ==
    /\ WriteFailed
    /\ Exchange.results[3] = "failEarly"
    /\ StatusCode = 400
    /\ Exchange.w.body = ErrWrite

----------------------------------------------------------------------------
(* C13 to C16: the registry.                                               *)

\* A method that satisfies the five discovery rules.
Suitable(m) ==
    IsExported(m.name) /\ m.numIn = 3 /\ m.pointers /\ m.typesOk /\ m.returnsError

IsRegistration == last.op = "RegisterService"

\* The name a registration resolves to: the one given or the type's.
ResolvedName == IF last.name = <<>> THEN last.receiver.type ELSE last.name

\* The dotted names of the entries of a registry.
Resolvable(svc) ==
    UNION {{Dotted(sv, m) : m \in DOMAIN svc[sv].methods} : sv \in DOMAIN svc}

\* C13: registering a receiver with at least one suitable method under a
\* valid name, inferred or given, succeeds, and afterwards HasMethod is true
\* of Name.Method for each suitable method of the receiver and false for
\* each method the rules filter out.
C13_SuitableMethodsRegistered ==
    (/\ IsRegistration
     /\ IsExported(ResolvedName)
     /\ \E m \in last.receiver.methods : Suitable(m)) =>
        /\ last.err = NoError
        /\ \A m \in last.receiver.methods :
               HasMethod(services, Dotted(ResolvedName, m.name)) <=> Suitable(m)

\* Service3 was registered under the name Foo: Foo.Add resolves and none of
\* its five filtered methods does.
C13_Witness ==
    /\ IsRegistration
    /\ last.receiver = Service3 /\ last.name = FooName
    /\ last.err = NoError
    /\ HasMethod(services, Dotted(FooName, AddName))
    /\ \A f \in Filtered : ~HasMethod(services, Dotted(FooName, f.name))

\* C14: registering a receiver without a suitable method fails and adds
\* nothing: the registry is as it was, so every dotted name resolves after
\* the call exactly if it did before.
C14_NoSuitableMethodNothingAdded ==
    (IsRegistration /\ \A m \in last.receiver.methods : ~Suitable(m)) =>
        /\ last.err # NoError
        /\ services = last.before
        /\ Resolvable(services) = Resolvable(last.before)
        /\ \A q \in MethodQueries : HasMethod(services, q) <=> HasMethod(last.before, q)

\* Foo held Service1; registering Service4, whose methods are all filtered
\* out, as Foo failed and Foo.Multiply still resolves.
C14_Witness ==
    /\ IsRegistration
    /\ last.receiver = Service4 /\ last.name = FooName
    /\ last.err # NoError
    /\ FooName \in DOMAIN last.before
    /\ HasMethod(services, Dotted(FooName, MultiplyName))

\* C15: a successful registration leaves the entry of every other name as
\* it was; a receiver registered under two names resolves under both.
C15_TwoNamesIndependent ==
    (IsRegistration /\ last.err = NoError) =>
        /\ \A k \in DOMAIN last.before \ {ResolvedName} :
               k \in DOMAIN services /\ services[k] = last.before[k]
        /\ \A k \in DOMAIN last.before :
               last.before[k].rcvr = last.receiver.type =>
                   \A m \in {f \in last.receiver.methods : Suitable(f)} :
                       /\ HasMethod(services, Dotted(k, m.name))
                       /\ HasMethod(services, Dotted(ResolvedName, m.name))

\* Service1 was registered under its own name and then as Foo: both
\* Service1.Multiply and Foo.Multiply resolve.
C15_Witness ==
    /\ IsRegistration
    /\ last.receiver = Service1 /\ last.name = FooName /\ last.err = NoError
    /\ Service1Name \in DOMAIN last.before
    /\ last.before[Service1Name].rcvr = Service1Name
    /\ HasMethod(services, Dotted(Service1Name, MultiplyName))
    /\ HasMethod(services, Dotted(FooName, MultiplyName))

\* C16: HasMethod is true exactly of the names Service.Method of a
\* registered service and a method of its table; a name without exactly one
\* separator, or with an empty part, is never resolved; the query leaves
\* the registry as it was.
C16_ResolvesExactlyRegistered ==
    last.op = "HasMethod" =>
        LET q == last.method
            dots == Cardinality({i \in 1..Len(q) : q[i] = "."})
        IN  /\ services = last.before
            /\ last.result <=> q \in Resolvable(services)
            /\ dots # 1 => ~last.result
            /\ (q # <<>> /\ (q[1] = "." \/ q[Len(q)] = ".")) => ~last.result

\* With Service1 registered, a name that stops short of a registered method
\* name was asked for and did not resolve.
C16_Witness ==
    /\ last.op = "HasMethod"
    /\ Service1Name \in DOMAIN services
    /\ last.method = Dotted(Service1Name, SubSeq(MultiplyName, 1, 5))
    /\ ~last.result

----------------------------------------------------------------------------
(* C17.                                                                    *)

\* Two objects hold the same JSON values: the same keys, and under each key
\* values of the same text that are both strings or both numbers.
SameObject(a, b) ==
    /\ DOMAIN a = DOMAIN b
    /\ \A k \in DOMAIN a :
           /\ a[k].v = b[k].v
           /\ (a[k].t = "string") <=> (b[k].t = "string")

\* C17 as stated: an error rebuilt from the text of Error() exists and its
\* Object() equals that of the original, whichever constructor made the
\* original.
C17_RebuiltObjectEqual ==
    last.op = "Rebuild" =>
        /\ last.err = NoError
        /\ SameObject(Object(last.e), Object(last.original))

----------------------------------------------------------------------------
(* C18.                                                                    *)

\* C18: handling a request leaves the registry, the codec table and the
\* allow-list as they were, whatever the outcome of the request; and a
\* request that directly follows the same request, with no Bind, BindLocal
\* or registration in between, gets the same admission verdict and the same
\* answer of the checks made before the codec is asked.
C18_RequestsChangeNothing ==
    [][last'.op = "ServeHTTP" =>
           /\ allow' = allow /\ codecs' = codecs /\ services' = services
           /\ (last.op = "ServeHTTP" /\ last'.x.r = last.x.r) =>
                  /\ (last'.x.w.code = 403) <=> (last.x.w.code = 403)
                  /\ last.x.w.code \in {403, 405, 415} => last'.x.w = last.x.w]_vars

\* A request was rejected by a server whose allow-list, codec table and
\* registry are all non-empty.
C18_Witness ==
    /\ IsServed
    /\ allow # <<>> /\ codecs # <<>> /\ services # <<>>
    /\ StatusCode = 403

----------------------------------------------------------------------------
(* C20.                                                                    *)

\* C20 as stated: every response the dispatcher writes with status 403,
\* 405, 415 or 400 is committed with the header Content-Type: text/plain;
\* charset=utf-8 among its headers.
C20_ErrorsCommittedAsPlainText ==
    (IsServed /\ StatusCode \in {403, 405, 415, 400}) =>
        Exchange.w.sent.ContentType = "text/plain; charset=utf-8"

----------------------------------------------------------------------------
(* C19.                                                                    *)

\* C19: the argument and the reply instance of a request are new and
\* zero-valued when allocated and are shared with no other request; in
\* every interleaving the reply handed to a request's WriteResponse is what
\* the request's own invocation computed from the arguments decoded from its
\* own body.
C19_OwnReplyWritten ==
    \A h \in DOMAIN handlers :
        LET g == handlers[h]
        IN  /\ \A i \in 1..Len(g.fresh) : g.fresh[i] \in {NewArgs, NewReply}
            /\ \A k \in DOMAIN handlers \ {h} :
                   {g.args, g.reply} \cap {handlers[k].args, handlers[k].reply} \subseteq {NoPointer}
            /\ g.pc = "done" =>
                   /\ g.func = "Multiply" =>
                          /\ g.written = <<[Result |-> g.body.args.A * g.body.args.B]>>
                          /\ g.errResult = NoError
                   /\ g.func = "ResponseError" =>
                          /\ g.written = <<NewReply>>
                          /\ g.errResult = ErrResponseError

\* Two requests to Service1.Multiply with different arguments, handled in
\* an interleaving in which the second allocated its arguments between the
\* allocations of the first, have both been answered, each with its own
\* product.
C19_Witness ==
    /\ DOMAIN handlers = 1..MaxRequests
    /\ handlers[1].pc = "done" /\ handlers[2].pc = "done"
    /\ handlers[1].func = "Multiply" /\ handlers[2].func = "Multiply"
    /\ handlers[1].args < handlers[2].args /\ handlers[2].args < handlers[1].reply
    /\ handlers[1].written = <<[Result |-> 8]>>
    /\ handlers[2].written = <<[Result |-> 15]>>

====
